---- MODULE Spec2Model ----
(***************************************************************************)
(* xdirs: application-specific directory paths on top of dirs-next.        *)
(*                                                                         *)
(* The crate is a facade (lib.rs) over one of three backends (macos.rs,    *)
(* nix.rs, windows.rs) chosen by cfg attributes.  Every function reads at  *)
(* most one external primitive (dirs_next::*, dirs_sys_next::known_folder) *)
(* and composes its Option<PathBuf> with PathBuf::join.                    *)
(*                                                                         *)
(* Text is modelled as a sequence of tokens: a token is either a path      *)
(* separator ("/" or "\\") or a run of non-separator characters.  A path   *)
(* is what std::path compares: an optional prefix (a Windows drive), the   *)
(* root flag, and the sequence of normal components.  An Option<T> is the  *)
(* set of its values: {} is None and {p} is Some(p).                       *)
(***************************************************************************)
EXTENDS Naturals, Sequences, FiniteSets, TLC

VARIABLES target, env, threads, frames

vars == <<target, env, threads, frames>>

----
\* Option<T>

None == {}

Some(p) == {p}

IsSome(o) == o # {}

----
\* std::path as compiled for the target

\* cfg(windows): the target family is "windows"
cfg_windows == target.family = "windows"

\* std::path::is_separator: '/' everywhere, and '\' on Windows
IsSep(c) == c = "/" \/ (cfg_windows /\ c = "\\")

RECURSIVE Split(_, _, _, _)
\* Path::components over text s from token i: cur is the component being
\* read, acc the components read; empty components (repeated or trailing
\* separators) are dropped.
Split(s, i, cur, acc) ==
    IF i > Len(s)
    THEN IF cur = "" THEN acc ELSE Append(acc, cur)
    ELSE IF IsSep(s[i])
         THEN Split(s, i + 1, "", IF cur = "" THEN acc ELSE Append(acc, cur))
         ELSE Split(s, i + 1, cur \o s[i], acc)

\* The normal components of text s.
Components(s) == Split(s, 1, "", <<>>)

\* Path::has_root for text without a drive prefix
HasRoot(s) == Len(s) > 0 /\ IsSep(s[1])

\* PathBuf::from(s), for text without a drive prefix
PathBuf_from(s) == [prefix |-> "", root |-> HasRoot(s), comps |-> Components(s)]

\* A "." component that is not the first of a relative path is skipped by
\* Path::components.
NoCurDir(cs) == SelectSeq(cs, LAMBDA c : c # ".")

\* PathBuf::push(q): a q with a prefix replaces the path; a q with a root and
\* no prefix replaces everything but the path's prefix; any other q is
\* appended.
Push(p, q) ==
    IF q.prefix # ""
    THEN q
    ELSE IF q.root
         THEN [prefix |-> p.prefix, root |-> TRUE, comps |-> q.comps]
         ELSE [prefix |-> p.prefix, root |-> p.root,
               comps |-> p.comps \o NoCurDir(q.comps)]

\* path.join(s) for text s: PathBuf::push of the path s names
Join(p, s) == Push(p, PathBuf_from(s))

\* format!("{}.app", app)
DotApp(app) == app \o <<".app">>
----
\* The external primitives.  env maps each primitive to the Option<PathBuf>
\* it returns at this moment.

Prims ==
    {"home_dir", "cache_dir", "config_dir", "data_dir", "data_local_dir",
     "template_dir", "FOLDERID_ProgramFiles", "FOLDERID_ProgramFilesCommon",
     "FOLDERID_UserProgramFiles", "FOLDERID_Favorites"}

\* dirs_next::{home_dir, cache_dir, config_dir, data_dir, data_local_dir,
\* template_dir}
home_dir(e) == e["home_dir"]

cache_dir(e) == e["cache_dir"]

config_dir(e) == e["config_dir"]

data_dir(e) == e["data_dir"]

data_local_dir(e) == e["data_local_dir"]

template_dir(e) == e["template_dir"]

\* dirs_sys_next::known_folder(&knownfolders::FOLDERID_x)
known_folder(e, id) == e[id]

----
\* nix.rs

nix_D_FAVORITES == <<"favorites">>

nix_D_LOGS == <<"logs">>

nix_D_TEMPLATES == <<"templates">>

nix_application_dir(e) == None

nix_application_shared_dir(e) == None

\* nix_user_application_dir composed as on macOS: home joined with
\* "Applications".
nix_user_application_dir_home(e) ==
    {Join(path, <<"Applications">>) : path \in home_dir(e)}

nix_user_application_dir(e) == nix_application_dir(e)

nix_app_container_dir_for(e, app) == None

nix_app_container_executable_dir_for(e, app) == nix_app_container_dir_for(e, app)

nix_user_app_container_dir_for(e, app) == None

nix_user_app_container_executable_dir_for(e, app) ==
    nix_user_app_container_dir_for(e, app)

nix_cache_dir_for(e, app) == {Join(path, app) : path \in cache_dir(e)}

nix_config_dir_for(e, app) == {Join(path, app) : path \in config_dir(e)}

nix_data_dir_for(e, app) == {Join(path, app) : path \in data_dir(e)}

nix_data_local_dir_for(e, app) ==
    {Join(path, app) : path \in data_local_dir(e)}

nix_favorites_dir(e) == None

\* nix_favorites_dir_for composed as on macOS: the generic directory joined
\* with the name.
nix_favorites_dir_for_generic(e, app) ==
    {Join(path, app) : path \in nix_favorites_dir(e)}

nix_favorites_dir_for(e, app) ==
    {Join(path, nix_D_FAVORITES) : path \in nix_data_local_dir_for(e, app)}

nix_log_dir(e) == None

\* nix_log_dir_for composing from the config directory instead.
nix_log_dir_for_config(e, app) ==
    {Join(path, nix_D_LOGS) : path \in nix_config_dir_for(e, app)}

nix_log_dir_for(e, app) ==
    {Join(path, nix_D_LOGS) : path \in nix_data_local_dir_for(e, app)}

nix_preference_dir(e) == config_dir(e)

\* nix_preference_dir_for composing from the data directory instead.
nix_preference_dir_for_data(e, app) == nix_data_dir_for(e, app)

nix_preference_dir_for(e, app) == nix_config_dir_for(e, app)

\* pub use dirs_next::template_dir
nix_template_dir(e) == template_dir(e)

nix_template_dir_for(e, app) ==
    {Join(d, nix_D_TEMPLATES) : d \in nix_config_dir_for(e, app)}

\* The functions of nix.rs by name.
nix(f, app, e) ==
    CASE f = "application_dir" -> nix_application_dir(e)
      [] f = "application_shared_dir" -> nix_application_shared_dir(e)
      [] f = "user_application_dir" -> nix_user_application_dir(e)
      [] f = "app_container_dir_for" -> nix_app_container_dir_for(e, app)
      [] f = "app_container_executable_dir_for" -> nix_app_container_executable_dir_for(e, app)
      [] f = "user_app_container_dir_for" -> nix_user_app_container_dir_for(e, app)
      [] f = "user_app_container_executable_dir_for" -> nix_user_app_container_executable_dir_for(e, app)
      [] f = "cache_dir_for" -> nix_cache_dir_for(e, app)
      [] f = "config_dir_for" -> nix_config_dir_for(e, app)
      [] f = "data_dir_for" -> nix_data_dir_for(e, app)
      [] f = "data_local_dir_for" -> nix_data_local_dir_for(e, app)
      [] f = "favorites_dir" -> nix_favorites_dir(e)
      [] f = "favorites_dir_for" -> nix_favorites_dir_for(e, app)
      [] f = "log_dir" -> nix_log_dir(e)
      [] f = "log_dir_for" -> nix_log_dir_for(e, app)
      [] f = "preference_dir" -> nix_preference_dir(e)
      [] f = "preference_dir_for" -> nix_preference_dir_for(e, app)
      [] f = "template_dir" -> nix_template_dir(e)
      [] f = "template_dir_for" -> nix_template_dir_for(e, app)

----
\* macos.rs

macos_application_dir(e) == Some(PathBuf_from(<<"/", "Applications">>))

macos_application_shared_dir(e) ==
    Some(PathBuf_from(<<"/", "Library", "/", "Frameworks">>))

\* macos_user_application_dir falling back to the empty path when there is no
\* home directory (unwrap_or_default in place of map).
macos_user_application_dir_default(e) ==
    LET home == IF home_dir(e) = None
                THEN [prefix |-> "", root |-> FALSE, comps |-> <<>>]
                ELSE CHOOSE h \in home_dir(e) : TRUE
    IN  Some(Join(home, <<"Applications">>))

macos_user_application_dir(e) ==
    {Join(path, <<"Applications">>) : path \in home_dir(e)}

\* macos_app_container_dir_for refusing the empty name and names that begin
\* with a separator.
macos_app_container_dir_for_checked(e, app) ==
    IF app = <<>> \/ HasRoot(app)
    THEN None
    ELSE {Join(path, DotApp(app)) : path \in macos_application_dir(e)}

macos_app_container_dir_for(e, app) ==
    {Join(path, DotApp(app)) : path \in macos_application_dir(e)}

\* macos_app_container_executable_dir_for under the user's application
\* directory instead of the system's.
macos_app_container_executable_dir_for_user(e, app) ==
    {Join(Join(u, DotApp(app)), <<"Contents", "/", "MacOS">>) :
        u \in macos_user_application_dir(e)}

macos_app_container_executable_dir_for(e, app) ==
    {Join(a, <<"Contents", "/", "MacOS">>) :
        a \in macos_app_container_dir_for(e, app)}

macos_user_app_container_dir_for(e, app) ==
    {Join(path, DotApp(app)) : path \in macos_user_application_dir(e)}

macos_user_app_container_executable_dir_for(e, app) ==
    {Join(a, <<"Contents", "/", "MacOS">>) :
        a \in macos_user_app_container_dir_for(e, app)}

macos_cache_dir_for(e, app) == {Join(path, app) : path \in cache_dir(e)}

macos_config_dir_for(e, app) == {Join(path, app) : path \in config_dir(e)}

macos_data_dir_for(e, app) == {Join(path, app) : path \in data_dir(e)}

macos_data_local_dir_for(e, app) ==
    {Join(path, app) : path \in data_local_dir(e)}

macos_favorites_dir(e) ==
    {Join(h, <<"Library", "/", "Favorites">>) : h \in home_dir(e)}

macos_favorites_dir_for(e, app) ==
    {Join(path, app) : path \in macos_favorites_dir(e)}

\* macos_log_dir under the data-local directory, as on Windows.
macos_log_dir_local(e) == {Join(h, <<"Logs">>) : h \in data_local_dir(e)}

macos_log_dir(e) ==
    {Join(h, <<"Library", "/", "Logs">>) : h \in home_dir(e)}

macos_log_dir_for(e, app) == {Join(path, app) : path \in macos_log_dir(e)}

macos_preference_dir(e) ==
    {Join(h, <<"Library", "/", "Preferences">>) : h \in home_dir(e)}

macos_preference_dir_for(e, app) ==
    {Join(path, app) : path \in macos_preference_dir(e)}

macos_template_dir(e) == None

\* macos_template_dir_for composing from the config directory instead.
macos_template_dir_for_config(e, app) ==
    {Join(d, <<"Templates">>) : d \in macos_config_dir_for(e, app)}

macos_template_dir_for(e, app) ==
    {Join(d, <<"Templates">>) : d \in macos_data_dir_for(e, app)}

\* The functions of macos.rs by name.
macos(f, app, e) ==
    CASE f = "application_dir" -> macos_application_dir(e)
      [] f = "application_shared_dir" -> macos_application_shared_dir(e)
      [] f = "user_application_dir" -> macos_user_application_dir(e)
      [] f = "app_container_dir_for" -> macos_app_container_dir_for(e, app)
      [] f = "app_container_executable_dir_for" -> macos_app_container_executable_dir_for(e, app)
      [] f = "user_app_container_dir_for" -> macos_user_app_container_dir_for(e, app)
      [] f = "user_app_container_executable_dir_for" -> macos_user_app_container_executable_dir_for(e, app)
      [] f = "cache_dir_for" -> macos_cache_dir_for(e, app)
      [] f = "config_dir_for" -> macos_config_dir_for(e, app)
      [] f = "data_dir_for" -> macos_data_dir_for(e, app)
      [] f = "data_local_dir_for" -> macos_data_local_dir_for(e, app)
      [] f = "favorites_dir" -> macos_favorites_dir(e)
      [] f = "favorites_dir_for" -> macos_favorites_dir_for(e, app)
      [] f = "log_dir" -> macos_log_dir(e)
      [] f = "log_dir_for" -> macos_log_dir_for(e, app)
      [] f = "preference_dir" -> macos_preference_dir(e)
      [] f = "preference_dir_for" -> macos_preference_dir_for(e, app)
      [] f = "template_dir" -> macos_template_dir(e)
      [] f = "template_dir_for" -> macos_template_dir_for(e, app)

----
\* windows.rs

windows_D_CACHE == <<"Cache">>

windows_application_dir(e) == known_folder(e, "FOLDERID_ProgramFiles")

\* windows_application_shared_dir looking up ProgramFiles.
windows_application_shared_dir_as_application(e) ==
    known_folder(e, "FOLDERID_ProgramFiles")

windows_application_shared_dir(e) == known_folder(e, "FOLDERID_ProgramFilesCommon")

windows_user_application_dir(e) == known_folder(e, "FOLDERID_UserProgramFiles")

windows_app_container_dir_for(e, app) == None

windows_app_container_executable_dir_for(e, app) ==
    windows_app_container_dir_for(e, app)

windows_user_app_container_dir_for(e, app) == None

windows_user_app_container_executable_dir_for(e, app) ==
    windows_user_app_container_dir_for(e, app)

\* windows_cache_dir_for without the "Cache" segment, as the other kinds.
windows_cache_dir_for_plain(e, app) == {Join(path, app) : path \in cache_dir(e)}

windows_cache_dir_for(e, app) ==
    {Join(Join(path, app), windows_D_CACHE) : path \in cache_dir(e)}

windows_config_dir_for(e, app) == {Join(path, app) : path \in config_dir(e)}

windows_data_dir_for(e, app) == {Join(path, app) : path \in data_dir(e)}

windows_data_local_dir_for(e, app) ==
    {Join(path, app) : path \in data_local_dir(e)}

windows_favorites_dir(e) == known_folder(e, "FOLDERID_Favorites")

windows_favorites_dir_for(e, app) ==
    {Join(path, app) : path \in windows_favorites_dir(e)}

\* windows_log_dir under the roaming data directory.
windows_log_dir_roaming(e) == {Join(h, <<"Logs">>) : h \in data_dir(e)}

windows_log_dir(e) == {Join(h, <<"Logs">>) : h \in data_local_dir(e)}

\* windows_log_dir_for taking LocalAppData from cache_dir() once log_dir() is
\* known to exist: two primitives read in one call.
windows_log_dir_for_cache(e, app) ==
    {Join(Join(c, <<"Logs">>), app) :
        c \in {x \in cache_dir(e) : IsSome(windows_log_dir(e))}}

windows_log_dir_for(e, app) ==
    {Join(path, app) : path \in windows_log_dir(e)}

windows_preference_dir(e) == config_dir(e)

windows_preference_dir_for(e, app) == windows_config_dir_for(e, app)

\* pub use dirs_next::template_dir
windows_template_dir(e) == template_dir(e)

windows_template_dir_for(e, app) ==
    {Join(d, app) : d \in windows_template_dir(e)}

\* The functions of windows.rs by name.
windows(f, app, e) ==
    CASE f = "application_dir" -> windows_application_dir(e)
      [] f = "application_shared_dir" -> windows_application_shared_dir(e)
      [] f = "user_application_dir" -> windows_user_application_dir(e)
      [] f = "app_container_dir_for" -> windows_app_container_dir_for(e, app)
      [] f = "app_container_executable_dir_for" -> windows_app_container_executable_dir_for(e, app)
      [] f = "user_app_container_dir_for" -> windows_user_app_container_dir_for(e, app)
      [] f = "user_app_container_executable_dir_for" -> windows_user_app_container_executable_dir_for(e, app)
      [] f = "cache_dir_for" -> windows_cache_dir_for(e, app)
      [] f = "config_dir_for" -> windows_config_dir_for(e, app)
      [] f = "data_dir_for" -> windows_data_dir_for(e, app)
      [] f = "data_local_dir_for" -> windows_data_local_dir_for(e, app)
      [] f = "favorites_dir" -> windows_favorites_dir(e)
      [] f = "favorites_dir_for" -> windows_favorites_dir_for(e, app)
      [] f = "log_dir" -> windows_log_dir(e)
      [] f = "log_dir_for" -> windows_log_dir_for(e, app)
      [] f = "preference_dir" -> windows_preference_dir(e)
      [] f = "preference_dir_for" -> windows_preference_dir_for(e, app)
      [] f = "template_dir" -> windows_template_dir(e)
      [] f = "template_dir_for" -> windows_template_dir_for(e, app)
----
\* lib.rs: the selection of the sys module

\* The cfg attribute on each `mod sys` item (lib.rs 411, 415-420, 424).
cfg_macos_rs(t) == t.os \in {"macos", "ios"}

\* The nix.rs attribute without its `windows` exclusion.
cfg_nix_rs_no_windows(t) ==
    ~(t.arch = "wasm32" \/ t.os = "macos" \/ t.os = "ios")

cfg_nix_rs(t) ==
    ~(t.arch = "wasm32" \/ t.family = "windows" \/ t.os = "macos" \/ t.os = "ios")

cfg_windows_rs(t) == t.family = "windows"

\* The files compiled as `mod sys` for target t.
SysModules(t) ==
    {m \in {"macos"} : cfg_macos_rs(t)} \cup {m \in {"nix"} : cfg_nix_rs(t)}
        \cup {m \in {"windows"} : cfg_windows_rs(t)}

\* The crate builds when `sys` names one module.
Builds == Cardinality(SysModules(target)) = 1

\* sys::f(app)
sys(f, app, e) ==
    LET m == CHOOSE x \in SysModules(target) : TRUE
    IN  CASE m = "macos" -> macos(f, app, e)
          [] m = "nix" -> nix(f, app, e)
          [] m = "windows" -> windows(f, app, e)

----
\* lib.rs: the public functions

\* pub use dirs_next::{cache_dir, config_dir, data_dir, data_local_dir}
ReExports == {"cache_dir", "config_dir", "data_dir", "data_local_dir"}

GenericFns ==
    {"application_dir", "application_shared_dir", "user_application_dir",
     "favorites_dir", "log_dir", "preference_dir", "template_dir"}

PerAppFns ==
    {"app_container_dir_for", "app_container_executable_dir_for",
     "user_app_container_dir_for", "user_app_container_executable_dir_for",
     "cache_dir_for", "config_dir_for", "data_dir_for", "data_local_dir_for",
     "favorites_dir_for", "log_dir_for", "preference_dir_for", "template_dir_for"}

FacadeFns == GenericFns \cup PerAppFns

PublicFns == ReExports \cup FacadeFns

\* A facade that rejects the empty name before delegating.
FacadeValidating(f, app, e) ==
    IF f \in PerAppFns /\ app = <<>> THEN None ELSE sys(f, app, e)

\* The functions lib.rs defines: each body is the call of sys's function of
\* the same name.
Facade(f, app, e) ==
    CASE f = "application_dir" -> sys("application_dir", app, e)
      [] f = "application_shared_dir" -> sys("application_shared_dir", app, e)
      [] f = "user_application_dir" -> sys("user_application_dir", app, e)
      [] f = "app_container_dir_for" -> sys("app_container_dir_for", app, e)
      [] f = "app_container_executable_dir_for" -> sys("app_container_executable_dir_for", app, e)
      [] f = "user_app_container_dir_for" -> sys("user_app_container_dir_for", app, e)
      [] f = "user_app_container_executable_dir_for" -> sys("user_app_container_executable_dir_for", app, e)
      [] f = "cache_dir_for" -> sys("cache_dir_for", app, e)
      [] f = "config_dir_for" -> sys("config_dir_for", app, e)
      [] f = "data_dir_for" -> sys("data_dir_for", app, e)
      [] f = "data_local_dir_for" -> sys("data_local_dir_for", app, e)
      [] f = "favorites_dir" -> sys("favorites_dir", app, e)
      [] f = "favorites_dir_for" -> sys("favorites_dir_for", app, e)
      [] f = "log_dir" -> sys("log_dir", app, e)
      [] f = "log_dir_for" -> sys("log_dir_for", app, e)
      [] f = "preference_dir" -> sys("preference_dir", app, e)
      [] f = "preference_dir_for" -> sys("preference_dir_for", app, e)
      [] f = "template_dir" -> sys("template_dir", app, e)
      [] f = "template_dir_for" -> sys("template_dir_for", app, e)

\* A call of public function f with argument app under primitives e.
Public(f, app, e) == IF f \in ReExports THEN e[f] ELSE Facade(f, app, e)

----
\* The inputs

\* Build targets: family, os and arch as rustc sets them.
Targets ==
    {[family |-> "windows", os |-> "windows", arch |-> "x86_64"],
     [family |-> "unix", os |-> "macos", arch |-> "aarch64"],
     [family |-> "unix", os |-> "ios", arch |-> "aarch64"],
     [family |-> "unix", os |-> "linux", arch |-> "x86_64"],
     [family |-> "wasm", os |-> "unknown", arch |-> "wasm32"]}

\* Application names, as text: Chrome, the empty name, a/b, /etc, Logs, Cache.
AppNames ==
    <<<<"Chrome">>, <<>>, <<"a", "/", "b">>, <<"/", "etc">>, <<"Logs">>,
      <<"Cache">>>>

\* How many of AppNames the callers use.
MaxApps == 5

Apps == {AppNames[i] : i \in {j \in 1..Len(AppNames) : j <= MaxApps}}

\* The argument of a function without parameters.
NoApp == <<>>

AbsPath(prefix, comps) == [prefix |-> prefix, root |-> TRUE, comps |-> comps]

\* The primitives each platform's dirs-next has, with the value each returns
\* when it returns one for user alice.
PrimValues(t) ==
    IF t.family = "windows" THEN
        LET local == <<"Users", "Alice", "AppData", "Local">>
            roaming == <<"Users", "Alice", "AppData", "Roaming">>
        IN  [cache_dir |-> AbsPath("C:", local),
             data_local_dir |-> AbsPath("C:", local),
             config_dir |-> AbsPath("C:", roaming),
             data_dir |-> AbsPath("C:", roaming),
             template_dir |->
                 AbsPath("C:", roaming \o <<"Microsoft", "Windows", "Templates">>),
             FOLDERID_ProgramFiles |-> AbsPath("C:", <<"Program Files">>),
             FOLDERID_ProgramFilesCommon |->
                 AbsPath("C:", <<"Program Files", "Common Files">>),
             FOLDERID_UserProgramFiles |-> AbsPath("C:", local \o <<"Programs">>),
             FOLDERID_Favorites |-> AbsPath("C:", <<"Users", "Alice", "Favorites">>)]
    ELSE IF t.os \in {"macos", "ios"} THEN
        LET support == <<"Users", "Alice", "Library", "Application Support">>
        IN  [home_dir |-> AbsPath("", <<"Users", "Alice">>),
             cache_dir |-> AbsPath("", <<"Users", "Alice", "Library", "Caches">>),
             config_dir |-> AbsPath("", support),
             data_dir |-> AbsPath("", support),
             data_local_dir |-> AbsPath("", support)]
    ELSE IF t.arch # "wasm32" THEN
        [home_dir |-> AbsPath("", <<"home", "alice">>),
         cache_dir |-> AbsPath("", <<"home", "alice", ".cache">>),
         config_dir |-> AbsPath("", <<"home", "alice", ".config">>),
         data_dir |-> AbsPath("", <<"home", "alice", ".local", "share">>),
         data_local_dir |-> AbsPath("", <<"home", "alice", ".local", "share">>),
         template_dir |-> AbsPath("", <<"home", "alice", "Templates">>)]
    ELSE <<>>

\* The state of the primitives on target t in which those of D return their
\* value and the others return None.
EnvOf(t, D) ==
    LET v == PrimValues(t)
    IN  [p \in Prims |-> IF p \in D THEN Some(v[p]) ELSE None]

\* The states of the primitives on target t: each returns its value or None.
Envs(t) == {EnvOf(t, D) : D \in SUBSET (DOMAIN PrimValues(t))}

\* The two extreme states: every primitive returns its value, or none does.
EnvAll(t) == EnvOf(t, DOMAIN PrimValues(t))

EnvNone == [p \in Prims |-> None]

----
\* The state machine: threads of one process calling the public functions.
\* A thread's frame holds its call: pc is "idle" between calls, "called" once
\* the call is made and "done" once the function has returned res.

Threads == {"t1", "t2"}

IdleFrame == [pc |-> "idle", f |-> "", app |-> NoApp, res |-> None]

\* The process starts on the target it was built for, in some state of the
\* primitives, with one calling thread.
Init ==
    /\ target \in Targets
    /\ env \in Envs(target)
    /\ threads = {"t1"}
    /\ frames = [t \in Threads |-> IdleFrame]

\* As Init, with two calling threads.
InitConc ==
    /\ target \in {t \in Targets : Cardinality(SysModules(t)) = 1 /\ t.os # "ios"}
    /\ env \in {EnvAll(target), EnvNone}
    /\ threads = Threads
    /\ frames = [t \in Threads |-> IdleFrame]

\* Thread t calls public function f with argument app.
Invoke(t, f, app) ==
    /\ Builds
    /\ frames[t].pc = "idle"
    /\ frames' = [frames EXCEPT ![t] = [pc |-> "called", f |-> f, app |-> app,
                                        res |-> None]]
    /\ UNCHANGED <<target, env, threads>>

\* Exec returning its path in a buffer shared by the threads: the results
\* other threads hold are overwritten.
ExecSharedBuffer(t) ==
    /\ frames[t].pc = "called"
    /\ LET r == Public(frames[t].f, frames[t].app, env)
       IN  frames' = [u \in Threads |->
                         IF u = t
                         THEN [frames[u] EXCEPT !.pc = "done", !.res = r]
                         ELSE IF frames[u].pc = "done"
                              THEN [frames[u] EXCEPT !.res = r]
                              ELSE frames[u]]
    /\ UNCHANGED <<target, env, threads>>

\* Exec giving up (None) when another thread's call is in progress.
ExecContended(t) ==
    /\ frames[t].pc = "called"
    /\ LET busy == \E u \in threads \ {t} : frames[u].pc = "called"
       IN  frames' = [frames EXCEPT
                         ![t].pc = "done",
                         ![t].res = IF busy THEN None
                                    ELSE Public(frames[t].f, frames[t].app, env)]
    /\ UNCHANGED <<target, env, threads>>

\* Thread t's call runs: the function reads its primitive, composes the path
\* and returns.
Exec(t) ==
    /\ frames[t].pc = "called"
    /\ frames' = [frames EXCEPT ![t].pc = "done",
                                ![t].res = Public(frames[t].f, frames[t].app, env)]
    /\ UNCHANGED <<target, env, threads>>

\* Thread t's caller takes the result; the thread is free to call again.
Return(t) ==
    /\ frames[t].pc = "done"
    /\ frames' = [frames EXCEPT ![t] = IdleFrame]
    /\ UNCHANGED <<target, env, threads>>

Next ==
    \E t \in threads :
        \/ \E f \in ReExports \cup GenericFns : Invoke(t, f, NoApp)
        \/ \E f \in PerAppFns, app \in Apps : Invoke(t, f, app)
        \/ Exec(t)
        \/ Return(t)

Spec == Init /\ [][Next]_vars

SpecConc == InitConc /\ [][Next]_vars
----
\* Reading aids for the properties

\* The calls that have returned.
Returned == {frames[t] : t \in {u \in threads : frames[u].pc = "done"}}

\* The module compiled as sys.
Sys == CHOOSE m \in SysModules(target) : TRUE

\* The generic function of the same kind as per-application function f, for
\* the kinds that have both.
GenericOf(f) ==
    CASE f = "cache_dir_for" -> "cache_dir"
      [] f = "config_dir_for" -> "config_dir"
      [] f = "data_dir_for" -> "data_dir"
      [] f = "data_local_dir_for" -> "data_local_dir"
      [] f = "favorites_dir_for" -> "favorites_dir"
      [] f = "log_dir_for" -> "log_dir"
      [] f = "preference_dir_for" -> "preference_dir"
      [] f = "template_dir_for" -> "template_dir"

KindFns == {"cache_dir_for", "config_dir_for", "data_dir_for", "data_local_dir_for",
            "favorites_dir_for", "log_dir_for", "preference_dir_for",
            "template_dir_for"}

\* The fixed literal subdirectories the backends append after the name.
Literals == {nix_D_FAVORITES, nix_D_LOGS, nix_D_TEMPLATES, <<"Templates">>,
             windows_D_CACHE}

----
\* C1. On each backend, for every kind with a generic and a per-application
\* function and every name: when both results are defined, X_dir_for(app) is
\* X_dir() joined with app; on Windows the Cache kind is X_dir() joined with
\* app and then "Cache".
C1_PerAppIsGenericJoinApp ==
    \A c \in Returned :
        c.f \in KindFns =>
            LET g == Public(GenericOf(c.f), NoApp, env)
            IN  (IsSome(g) /\ IsSome(c.res)) =>
                    IF Sys = "windows" /\ c.f = "cache_dir_for"
                    THEN c.res = {Join(Join(p, c.app), <<"Cache">>) : p \in g}
                    ELSE c.res = {Join(p, c.app) : p \in g}

\* The statement of C1 for every kind but the POSIX Template kind, the one
\* place where the code departs from it.
C1_ExceptNixTemplate ==
    \A c \in Returned :
        (c.f \in KindFns /\ ~(Sys = "nix" /\ c.f = "template_dir_for")) =>
            LET g == Public(GenericOf(c.f), NoApp, env)
            IN  (IsSome(g) /\ IsSome(c.res)) =>
                    IF Sys = "windows" /\ c.f = "cache_dir_for"
                    THEN c.res = {Join(Join(p, c.app), <<"Cache">>) : p \in g}
                    ELSE c.res = {Join(p, c.app) : p \in g}
----
BaseOf(f) ==
    CASE Sys = "nix" /\ f \in {"favorites_dir_for", "log_dir_for"} -> "data_local_dir"
      [] Sys = "nix" /\ f = "template_dir_for" -> "config_dir"
      [] Sys = "macos" /\ f = "template_dir_for" -> "data_dir"
      [] OTHER -> GenericOf(f)

----
\* The primitive whose value function f of the compiled backend composes
\* from; "" when the function reads none.
PrimOf(f) ==
    CASE Sys = "nix" ->
            (CASE f = "cache_dir_for" -> "cache_dir"
               [] f \in {"config_dir_for", "preference_dir", "preference_dir_for",
                         "template_dir_for"} -> "config_dir"
               [] f = "data_dir_for" -> "data_dir"
               [] f \in {"data_local_dir_for", "favorites_dir_for", "log_dir_for"}
                     -> "data_local_dir"
               [] f = "template_dir" -> "template_dir"
               [] OTHER -> "")
      [] Sys = "macos" ->
            (CASE f \in {"user_application_dir", "user_app_container_dir_for",
                         "user_app_container_executable_dir_for", "favorites_dir",
                         "favorites_dir_for", "log_dir", "log_dir_for",
                         "preference_dir", "preference_dir_for"} -> "home_dir"
               [] f = "cache_dir_for" -> "cache_dir"
               [] f = "config_dir_for" -> "config_dir"
               [] f \in {"data_dir_for", "template_dir_for"} -> "data_dir"
               [] f = "data_local_dir_for" -> "data_local_dir"
               [] OTHER -> "")
      [] Sys = "windows" ->
            (CASE f = "application_dir" -> "FOLDERID_ProgramFiles"
               [] f = "application_shared_dir" -> "FOLDERID_ProgramFilesCommon"
               [] f = "user_application_dir" -> "FOLDERID_UserProgramFiles"
               [] f = "cache_dir_for" -> "cache_dir"
               [] f \in {"config_dir_for", "preference_dir", "preference_dir_for"}
                     -> "config_dir"
               [] f = "data_dir_for" -> "data_dir"
               [] f \in {"data_local_dir_for", "log_dir", "log_dir_for"}
                     -> "data_local_dir"
               [] f \in {"favorites_dir", "favorites_dir_for"} -> "FOLDERID_Favorites"
               [] f \in {"template_dir", "template_dir_for"} -> "template_dir"
               [] OTHER -> "")

\* C3. On every backend, for every per-application or derived function and
\* every name: when the primitive the function composes from returns None,
\* the function returns None; no path is made of the name and literals alone.
C3_AbsentBaseAbsentResult ==
    \A c \in Returned :
        (c.f \in FacadeFns /\ PrimOf(c.f) # "" /\ env[PrimOf(c.f)] = None) =>
            c.res = None

\* A derived per-application function has returned None because its primitive
\* did, while another primitive of the platform returns a path.
C3_Witness ==
    \E c \in Returned :
        /\ c.f \in {"favorites_dir_for", "template_dir_for",
                    "user_app_container_executable_dir_for"}
        /\ c.app = <<"Chrome">>
        /\ PrimOf(c.f) # ""
        /\ env[PrimOf(c.f)] = None
        /\ c.res = None
        /\ \E p \in Prims : IsSome(env[p])
----
\* The function of the compiled backend that has the name f.
Backend(f, app, e) ==
    CASE Sys = "macos" -> macos(f, app, e)
      [] Sys = "nix" -> nix(f, app, e)
      [] Sys = "windows" -> windows(f, app, e)

\* C5. Every function lib.rs defines returns the value the compiled backend's
\* function of the same name returns for the same, unchanged name: the facade
\* validates nothing, transforms nothing and adds no absent or present case.
C5_FacadeDelegates ==
    \A c \in Returned :
        c.f \in FacadeFns => c.res = Backend(c.f, c.app, env)

\* A facade call with the empty name has returned a path.
C5_Witness ==
    \E c \in Returned : c.f \in PerAppFns /\ c.app = <<>> /\ IsSome(c.res)

----
\* C6. For every build target exactly one of macos.rs, nix.rs and windows.rs
\* is compiled as sys, never none and never two, and the selection never
\* changes while the process runs.  (The claim as first stated.)
C6_ExactlyOneBackend ==
    /\ [](Cardinality(SysModules(target)) = 1)
    /\ [][SysModules(target') = SysModules(target)]_vars

\* C6, amended.  For every build target at most one of macos.rs, nix.rs and
\* windows.rs is compiled as sys: exactly one, unless the target's
\* architecture is wasm32 outside Windows and Apple systems, for which none
\* is (the crate does not build and no call is ever made); the selection
\* never changes while the process runs.
C6_OneBackendUnlessWasm ==
    /\ [](/\ Cardinality(SysModules(target)) <= 1
          /\ (SysModules(target) = {}) <=>
                 (target.arch = "wasm32" /\ target.family # "windows"
                      /\ target.os \notin {"macos", "ios"})
          /\ \A t \in threads :
                 frames[t].pc # "idle" => Cardinality(SysModules(target)) = 1)
    /\ [][SysModules(target') = SysModules(target)]_vars

\* A call has returned on a Windows build.
C6_Witness ==
    /\ SysModules(target) = {"windows"}
    /\ \E c \in Returned : c.f = "cache_dir_for" /\ IsSome(c.res)
----
RECURSIVE Flat(_)
\* The text of name app as one string.
Flat(app) == IF app = <<>> THEN "" ELSE Head(app) \o Flat(Tail(app))

\* Path p with the component "{app}" replaced by seg, and "{app}.app" by seg
\* followed by ".app".
Fill(p, seg) ==
    [p EXCEPT !.comps = [i \in DOMAIN p.comps |->
                            IF p.comps[i] = "{app}" THEN seg
                            ELSE IF p.comps[i] = "{app}.app" THEN seg \o ".app"
                            ELSE p.comps[i]]]

\* C7. In every per-application function the name is used verbatim as one
\* path segment: for every name (with separators, empty, absolute) the path
\* returned keeps the whole base as its prefix, has exactly one segment for
\* the name ("{app}.app" for the macOS containers) and after it only the
\* kind's fixed literal suffix.
C7_NameIsOneSegment ==
    \A c \in Returned :
        c.f \in PerAppFns =>
            c.res = {Fill(p, Flat(c.app)) : p \in Public(c.f, <<"{app}">>, env)}

\* The statement of C7 for names that are one plain segment.
C7_PlainNameIsOneSegment ==
    \A c \in Returned :
        (c.f \in PerAppFns /\ c.app = <<"Chrome">>) =>
            c.res = {Fill(p, Flat(c.app)) : p \in Public(c.f, <<"{app}">>, env)}

----
\* The per-application functions the compiled backend defines a path for.
Defines(f) ==
    ~(Sys \in {"nix", "windows"}
          /\ f \in {"app_container_dir_for", "app_container_executable_dir_for",
                    "user_app_container_dir_for",
                    "user_app_container_executable_dir_for"})

\* C8. No call fails: every call that is made can return, its result is a
\* path or None, and the name never causes absence: when the platform defines
\* the kind and the primitive the function composes from returns a path, the
\* result is a path whatever the name.
C8_NameNeverCausesAbsence ==
    /\ \A t \in threads : frames[t].pc = "called" => ENABLED Exec(t)
    /\ \A c \in Returned :
           /\ Cardinality(c.res) <= 1
           /\ (/\ c.f \in PerAppFns
               /\ Defines(c.f)
               /\ PrimOf(c.f) # "" => IsSome(env[PrimOf(c.f)])) => IsSome(c.res)

\* A call with an absolute name and one with the empty name can have returned
\* a path: here the macOS container function has, for such a name.
C8_Witness ==
    \E c \in Returned :
        /\ c.f = "app_container_dir_for"
        /\ c.app \in {<<>>, <<"/", "etc">>}
        /\ Defines(c.f)
        /\ IsSome(c.res)

----
----
----
----
\* The application-install and app-container functions.
InstallFns ==
    {"application_dir", "application_shared_dir", "user_application_dir",
     "app_container_dir_for", "app_container_executable_dir_for",
     "user_app_container_dir_for", "user_app_container_executable_dir_for"}

\* C11. On the POSIX backend, application_dir(), application_shared_dir(),
\* user_application_dir() and the four app-container functions return None
\* for every name and every state of the primitives, the home directory
\* included.
C11_NixInstallDirsAbsent ==
    \A c \in Returned :
        (Sys = "nix" /\ c.f \in InstallFns) => c.res = None

\* On POSIX a user container function called with a plain name has returned
\* None while the home directory and every other primitive return a path.
C11_Witness ==
    \E c \in Returned :
        /\ Sys = "nix"
        /\ env = EnvAll(target)
        /\ IsSome(env["home_dir"])
        /\ c.f = "user_app_container_executable_dir_for"
        /\ c.app = <<"Chrome">>
        /\ c.res = None

----
----
\* C13. As the documentation table of template_dir_for states, on Linux
\* template_dir_for(app) is the XDG templates directory joined with the
\* name: it is defined exactly when template_dir() is, and is then
\* template_dir() joined with app.
C13_NixTemplateForIsTemplateJoinApp ==
    \A c \in Returned :
        (Sys = "nix" /\ c.f = "template_dir_for") =>
            LET g == Public("template_dir", NoApp, env)
            IN  /\ IsSome(c.res) <=> IsSome(g)
                /\ c.res = {Join(p, c.app) : p \in g}

\* What the code returns instead: the config directory joined with the name
\* and "templates", whatever the XDG templates directory is.
C13_NixTemplateForIsUnderConfig ==
    \A c \in Returned :
        (Sys = "nix" /\ c.f = "template_dir_for") =>
            c.res = {Join(Join(p, c.app), <<"templates">>) :
                        p \in env["config_dir"]}

----
\* C14. On the macOS backend, for every name and every state of the
\* primitives: application_dir() is /Applications and
\* application_shared_dir() is /Library/Frameworks; user_application_dir()
\* is home joined with "Applications"; app_container_dir_for(app) is
\* application_dir() joined with "{app}.app", so always defined;
\* user_app_container_dir_for(app) is user_application_dir() joined with
\* "{app}.app"; each *_executable_dir_for(app) is the corresponding container
\* path joined with "Contents/MacOS".
C14_MacosInstallDirs ==
    \A c \in Returned :
        Sys = "macos" =>
            /\ c.f = "application_dir" =>
                   c.res = {AbsPath("", <<"Applications">>)}
            /\ c.f = "application_shared_dir" =>
                   c.res = {AbsPath("", <<"Library", "Frameworks">>)}
            /\ c.f = "user_application_dir" =>
                   c.res = {Join(h, <<"Applications">>) : h \in env["home_dir"]}
            /\ c.f = "app_container_dir_for" =>
                   /\ IsSome(c.res)
                   /\ c.res = {Join(p, c.app \o <<".app">>) :
                                  p \in Public("application_dir", NoApp, env)}
            /\ c.f = "user_app_container_dir_for" =>
                   c.res = {Join(p, c.app \o <<".app">>) :
                               p \in Public("user_application_dir", NoApp, env)}
            /\ c.f = "app_container_executable_dir_for" =>
                   c.res = {Join(p, <<"Contents", "/", "MacOS">>) :
                               p \in Public("app_container_dir_for", c.app, env)}
            /\ c.f = "user_app_container_executable_dir_for" =>
                   c.res = {Join(p, <<"Contents", "/", "MacOS">>) :
                               p \in Public("user_app_container_dir_for", c.app,
                                            env)}

\* On macOS app_container_executable_dir_for("Chrome") has returned
\* /Applications/Chrome.app/Contents/MacOS with no home directory.
C14_Witness ==
    \E c \in Returned :
        /\ Sys = "macos"
        /\ env["home_dir"] = None
        /\ c.f = "app_container_executable_dir_for"
        /\ c.app = <<"Chrome">>
        /\ c.res = {AbsPath("", <<"Applications", "Chrome.app", "Contents",
                                  "MacOS">>)}

\* On macOS with home /Users/Alice,
\* user_app_container_executable_dir_for("Chrome") has returned
\* /Users/Alice/Applications/Chrome.app/Contents/MacOS.
C14_WitnessUser ==
    \E c \in Returned :
        /\ Sys = "macos"
        /\ c.f = "user_app_container_executable_dir_for"
        /\ c.app = <<"Chrome">>
        /\ c.res = {AbsPath("", <<"Users", "Alice", "Applications",
                                  "Chrome.app", "Contents", "MacOS">>)}

----
\* C15. On the macOS backend, template_dir() is None in every state of the
\* primitives, while template_dir_for(app) is data_dir_for(app) joined with
\* "Templates" and is defined exactly when the data directory primitive is.
C15_MacosTemplate ==
    \A c \in Returned :
        Sys = "macos" =>
            /\ c.f = "template_dir" => c.res = None
            /\ c.f = "template_dir_for" =>
                   /\ c.res = {Join(p, <<"Templates">>) :
                                  p \in Public("data_dir_for", c.app, env)}
                   /\ IsSome(c.res) <=> IsSome(env["data_dir"])

\* On macOS template_dir_for("Chrome") has returned
\* /Users/Alice/Library/Application Support/Chrome/Templates while
\* template_dir() is None and the config directory is absent.
C15_Witness ==
    \E c \in Returned :
        /\ Sys = "macos"
        /\ c.f = "template_dir_for"
        /\ c.app = <<"Chrome">>
        /\ c.res = {AbsPath("", <<"Users", "Alice", "Library",
                                  "Application Support", "Chrome", "Templates">>)}
        /\ Public("template_dir", NoApp, env) = None
        /\ env["config_dir"] = None

----
\* C16. On the macOS backend, favorites_dir(), log_dir() and preference_dir()
\* are the home directory joined with "Library/Favorites", "Library/Logs" and
\* "Library/Preferences", each None exactly when the home directory is, and
\* favorites_dir_for(app), log_dir_for(app) and preference_dir_for(app) are
\* the respective generic path joined with app.
C16_MacosLibraryDirs ==
    \A c \in Returned :
        Sys = "macos" =>
            /\ c.f = "favorites_dir" =>
                   c.res = {[h EXCEPT !.comps = @ \o <<"Library", "Favorites">>] :
                               h \in env["home_dir"]}
            /\ c.f = "log_dir" =>
                   c.res = {[h EXCEPT !.comps = @ \o <<"Library", "Logs">>] :
                               h \in env["home_dir"]}
            /\ c.f = "preference_dir" =>
                   c.res = {[h EXCEPT !.comps = @ \o <<"Library", "Preferences">>] :
                               h \in env["home_dir"]}
            /\ c.f \in {"favorites_dir", "log_dir", "preference_dir"} =>
                   (c.res = None <=> env["home_dir"] = None)
            /\ c.f \in {"favorites_dir_for", "log_dir_for", "preference_dir_for"} =>
                   c.res = {Join(p, c.app) :
                               p \in Public(GenericOf(c.f), NoApp, env)}

\* On macOS log_dir_for("Chrome") has returned
\* /Users/Alice/Library/Logs/Chrome.
C16_Witness ==
    \E c \in Returned :
        /\ Sys = "macos"
        /\ c.f = "log_dir_for"
        /\ c.app = <<"Chrome">>
        /\ c.res = {AbsPath("", <<"Users", "Alice", "Library", "Logs",
                                  "Chrome">>)}

----
C17_WitnessOther ==
    \E c \in Returned :
        /\ Sys = "windows"
        /\ c.f = "template_dir_for"
        /\ c.app = <<"Chrome">>
        /\ \E p \in env["template_dir"] :
               c.res = {[p EXCEPT !.comps = Append(@, "Chrome")]}

----
----
\* C19. On the Windows backend, user_application_dir() returns None, as the
\* backend's unit test asserts.
C19_WindowsUserApplicationDirAbsent ==
    \A c \in Returned :
        (Sys = "windows" /\ c.f = "user_application_dir") => c.res = None

----
----
\* The primitives change while calls run.  A call is then three steps: the
\* call, the read of the primitive at the head of the function's call chain,
\* and the composition of the path from the value read.

\* The primitive a call of public function f reads; "" when it reads none.
ReadOf(f) == IF f \in ReExports THEN f ELSE PrimOf(f)

\* The path a primitive returns once the directory it names has been moved
\* (the variable re-exported, the known folder redirected).
Moved(path) == [path EXCEPT !.comps = <<"mnt">> \o @]

\* How many primitives differ at one time from their first value.
MaxChanged == 1

\* The names the callers use while the primitives change: a plain name and an
\* absolute one.
EnvApps == {AppNames[1], AppNames[4]}

\* The primitives of e that differ from their first value on the target.
Changed(e) ==
    LET first == EnvAll(target) IN {p \in Prims : e[p] # first[p]}

\* The process starts with every primitive of the platform returning its
\* value, and one calling thread.
InitEnv ==
    /\ target \in {t \in Targets : Cardinality(SysModules(t)) = 1 /\ t.os # "ios"}
    /\ env = EnvAll(target)
    /\ threads = {"t1"}
    /\ frames = [t \in Threads |-> IdleFrame]

\* Thread t calls public function f with argument app.  The frame also keeps
\* the primitives read so far (reads), the value read (base) and the values
\* the function's primitive has held since the call (held).
Call(t, f, app) ==
    /\ Builds
    /\ frames[t].pc = "idle"
    /\ frames' = [frames EXCEPT ![t] =
                     [pc |-> "called", f |-> f, app |-> app, res |-> None,
                      reads |-> <<>>, base |-> None,
                      held |-> IF ReadOf(f) = "" THEN {} ELSE {env[ReadOf(f)]}]]
    /\ UNCHANGED <<target, env, threads>>

\* Thread t's call reaches its primitive and reads it.
ReadPrimitive(t) ==
    /\ frames[t].pc = "called"
    /\ ReadOf(frames[t].f) # ""
    /\ frames' = [frames EXCEPT ![t].pc = "read",
                                ![t].reads = Append(@, ReadOf(frames[t].f)),
                                ![t].base = env[ReadOf(frames[t].f)]]
    /\ UNCHANGED <<target, env, threads>>

\* Thread t's call composes its result: the function's body over the value
\* read, any other primitive being what it is now.
Compose(t) ==
    /\ \/ frames[t].pc = "read"
       \/ frames[t].pc = "called" /\ ReadOf(frames[t].f) = ""
    /\ LET e == [p \in Prims |->
                    IF p = ReadOf(frames[t].f) THEN frames[t].base ELSE env[p]]
       IN  frames' = [frames EXCEPT
                         ![t].pc = "done",
                         ![t].res = Public(frames[t].f, frames[t].app, e)]
    /\ UNCHANGED <<target, env, threads>>

\* The environment changes: primitive p now returns v.  Calls in progress
\* whose primitive it is have one more value held during them.
SetPrimitive(p, v) ==
    /\ v # env[p]
    /\ Cardinality(Changed([env EXCEPT ![p] = v])) <= MaxChanged
    /\ env' = [env EXCEPT ![p] = v]
    /\ frames' = [t \in Threads |->
                     IF frames[t].pc \in {"called", "read"}
                            /\ ReadOf(frames[t].f) = p
                     THEN [frames[t] EXCEPT !.held = @ \cup {v}]
                     ELSE frames[t]]
    /\ UNCHANGED <<target, threads>>

NextEnv ==
    \/ \E t \in threads :
           \/ \E f \in ReExports \cup GenericFns : Call(t, f, NoApp)
           \/ \E f \in PerAppFns, app \in EnvApps : Call(t, f, app)
           \/ ReadPrimitive(t)
           \/ Compose(t)
           \/ Return(t)
    \/ \E p \in DOMAIN PrimValues(target) :
           \E v \in {None, Some(PrimValues(target)[p]),
                     Some(Moved(PrimValues(target)[p]))} : SetPrimitive(p, v)

SpecEnv == InitEnv /\ [][NextEnv]_vars

----
\* The primitives in which only primitive p returns something: v.
Only(p, v) == [q \in Prims |-> IF q = p THEN v ELSE None]

\* C21. On every backend each public call reads at most one primitive, and
\* reads it at most once; so, although the primitives change between and
\* during calls, every path returned is what the function composes from one
\* value its primitive held at an instant of the call, and from nothing
\* else: no other primitive and no second value take part in it.
C21_OneBaseOneInstant ==
    \A t \in threads :
        frames[t].pc \in {"read", "done"} =>
            LET c == frames[t]
                p == ReadOf(c.f)
            IN  /\ Len(c.reads) <= 1
                /\ \A i \in DOMAIN c.reads : c.reads[i] = p
                /\ c.pc = "done" =>
                       IF p = ""
                       THEN c.res = Public(c.f, c.app, EnvNone)
                       ELSE /\ c.base \in c.held
                            /\ \E v \in c.held :
                                   c.res = Public(c.f, c.app, Only(p, v))

\* A call has returned a path composed from the value its primitive held
\* when read, although the primitive returns something else by now.
C21_Witness ==
    \E t \in threads :
        /\ frames[t].pc = "done"
        /\ frames[t].f = "log_dir_for"
        /\ frames[t].app = <<"Chrome">>
        /\ IsSome(frames[t].res)
        /\ frames[t].res = Public("log_dir_for", <<"Chrome">>,
                                  Only(ReadOf("log_dir_for"), frames[t].base))
        /\ env[ReadOf("log_dir_for")] # frames[t].base
        /\ Cardinality(frames[t].held) >= 2

----
\* C22. On the Windows backend, with LocalAppData defined, the log tree never
\* aliases per-application local storage: for all names a and b, log_dir()
\* differs from data_local_dir_for(a), and log_dir_for(a) differs from
\* cache_dir_for(b).
C22_LogTreeNeverAliases ==
    \A c \in Returned :
        (Sys = "windows" /\ IsSome(env["data_local_dir"])) =>
            /\ c.f = "data_local_dir_for" =>
                   c.res # Public("log_dir", NoApp, env)
            /\ c.f = "cache_dir_for" =>
                   \A a \in Apps : c.res # Public("log_dir_for", a, env)

\* The statement of C22 for the names other than Logs: no other name makes
\* the two trees meet.
C22_NoAliasUnlessNamedLogs ==
    \A c \in Returned :
        (Sys = "windows" /\ IsSome(env["data_local_dir"])
             /\ c.app # <<"Logs">>) =>
            /\ c.f = "data_local_dir_for" =>
                   c.res # Public("log_dir", NoApp, env)
            /\ c.f = "cache_dir_for" =>
                   \A a \in Apps : c.res # Public("log_dir_for", a, env)

====
